---- MODULE Spec2Model ----
(***************************************************************************)
(* Model of the scenario-mutation engine of src/scenario/fault_injector.py *)
(* (class FaultInjector): inject_fault_event and its helpers, and          *)
(* validate_scenario.                                                      *)
(*                                                                         *)
(* Python objects are mutable and shared by reference.  Scenario documents *)
(* therefore live in `heap` (object id -> value); a Python name holding a  *)
(* scenario holds an object id.  copy.deepcopy allocates a fresh object;   *)
(* every in-place mutation of the code is a write to the heap cell of the  *)
(* object the name refers to.                                              *)
(*                                                                         *)
(* Optional dictionary keys are sequences of length 0 (key absent) or 1    *)
(* (key present): <<>> / <<v>>.  A parameter value is tagged with its      *)
(* Python type: [t |-> "int", i |-> n, s |-> ""] or                        *)
(* [t |-> "str", i |-> 0, s |-> "..."].                                    *)
(***************************************************************************)
EXTENDS Integers, Sequences, FiniteSets, TLC

\* ------------------------------------------------------------------ bounds

\* Longest timeline of an input scenario.
MaxEvents == 3

\* ------------------------------------------------------------ Python values

IntVal(n) == [t |-> "int", i |-> n, s |-> ""]

StrVal(x) == [t |-> "str", i |-> 0, s |-> x]

\* isinstance(v, int)
IsInt(v) == v.t = "int"

Digit(d) == CASE d = 0 -> "0" [] d = 1 -> "1" [] d = 2 -> "2" [] d = 3 -> "3"
              [] d = 4 -> "4" [] d = 5 -> "5" [] d = 6 -> "6" [] d = 7 -> "7"
              [] d = 8 -> "8" [] d = 9 -> "9"

RECURSIVE NatStr(_)
NatStr(n) == IF n < 10 THEN Digit(n) ELSE NatStr(n \div 10) \o Digit(n % 10)

\* str(v) of a Python int or str
PyStr(v) == IF IsInt(v)
            THEN (IF v.i < 0 THEN "-" \o NatStr(-v.i) ELSE NatStr(v.i))
            ELSE v.s

\* ------------------------------------------------- scenario document shapes

\* {"rule": "equalTo", "name": n, "value": v, "unit": ""} of a condition
CondParam(n, v) == [rule |-> "equalTo", name |-> n, value |-> v, unit |-> ""]

\* {"name": n, "value": v, "unit": u} of an action
ActionParam(n, v, u) == [name |-> n, value |-> v, unit |-> u]

\* one condition of a condition group
Condition(ty, ps, d) == [type |-> ty, params |-> ps, delay |-> d]

\* an event_state condition on event v reaching completeState
EventState(v, d) ==
    Condition("event_state",
              <<CondParam("event_no", v), CondParam("state", StrVal("completeState"))>>,
              d)

\* {"condition_groups": [{"conditions": [...]}, ...]}: a sequence of groups,
\* each the sequence of its conditions
Trigger(groups) == [condition_groups |-> groups]

Event(no, ty, trig, tpo) ==
    [no |-> no,
     times |-> 1,
     action |-> [type |-> ty, params |-> <<>>],
     start_trigger |-> trig,
     criteria |-> <<>>,
     remarks |-> <<>>,
     test_procedure_order |-> tpo]

ActorStory(name, evs) == [actor_name |-> name, events |-> evs]

\* story: <<>> when the document has no "story" key, else <<list of actor stories>>
Scenario(summary, variation, story) ==
    [scenario_summary |-> summary, variation |-> variation, story |-> story]

\* trigger_info: each key is optional (<<>> absent / <<v>> present)
TriggerInfo(signal_name, value, action_type, target) ==
    [signal_name |-> signal_name, value |-> value,
     action_type |-> action_type, target |-> target]

\* dict.get(key, default) on an optional key
Get(opt, default) == IF opt = <<>> THEN default ELSE opt[1]

\* `sub in s` on Python strings
StrContains(s, sub) ==
    \E k \in 1..(Len(s) - Len(sub) + 1) : SubSeq(s, k, k + Len(sub) - 1) = sub

\* ------------------------------------------------------------ FaultInjector

\* mutant of find_insert_position: an absent number yields the end of the
\* list instead of -1
find_insert_position_or_end(events, after_event_no) ==
    LET hits == {i \in 1..Len(events) : events[i].no = after_event_no}
    IN  IF hits = {} THEN Len(events)
        ELSE CHOOSE i \in hits : \A j \in hits : i <= j

\* mutant of find_insert_position: the index of the event itself, not the one
\* after it
find_insert_position_before(events, after_event_no) ==
    LET hits == {i \in 1..Len(events) : events[i].no = after_event_no}
    IN  IF hits = {} THEN -1
        ELSE (CHOOSE i \in hits : \A j \in hits : i <= j) - 1

\* _find_insert_position: the 0-based index after the first event numbered
\* after_event_no, -1 when there is none
find_insert_position(events, after_event_no) ==
    LET hits == {i \in 1..Len(events) : events[i].no = after_event_no}
    IN  IF hits = {} THEN -1
        ELSE CHOOSE i \in hits : \A j \in hits : i <= j

\* mutant of value_param: the trigger's value is stored as it is, without str()
value_param_raw(trigger_info) ==
    IF trigger_info.value # <<>>
    THEN ActionParam("value", trigger_info.value[1], "")
    ELSE ActionParam("value", StrVal("1"), "")

\* the "value" parameter every action starts with (lines 159-174)
value_param(trigger_info) ==
    IF trigger_info.value # <<>>
    THEN ActionParam("value", StrVal(PyStr(trigger_info.value[1])), "")
    ELSE ActionParam("value", StrVal("1"), "")

\* mutant of action_params: the steering parameters are added to the "value"
\* parameter instead of replacing it
action_params_steering_extend(trigger_info) ==
    LET action_type == Get(trigger_info.action_type, "")
        base        == <<value_param(trigger_info)>>
    IN  IF StrContains(action_type, "communication_error") /\ trigger_info.target # <<>>
        THEN Append(base, ActionParam("target", trigger_info.target[1], ""))
        ELSE IF action_type = "brake"
        THEN <<[base[1] EXCEPT !.unit = "%"]>>
        ELSE IF action_type = "steering"
        THEN base \o
             <<ActionParam("target_rudder_angle", Get(trigger_info.value, IntVal(45)), "deg"),
               ActionParam("steering_time", IntVal(1), "s")>>
        ELSE base

\* the action parameters by action type (lines 158-204)
action_params(trigger_info) ==
    LET action_type == Get(trigger_info.action_type, "")
        base        == <<value_param(trigger_info)>>
    IN  IF StrContains(action_type, "communication_error") /\ trigger_info.target # <<>>
        THEN Append(base, ActionParam("target", trigger_info.target[1], ""))
        ELSE IF action_type = "brake"
        THEN <<[base[1] EXCEPT !.unit = "%"]>>
        ELSE IF action_type = "steering"
        THEN <<ActionParam("target_rudder_angle", Get(trigger_info.value, IntVal(45)), "deg"),
               ActionParam("steering_time", IntVal(1), "s")>>
        ELSE base

\* mutant of create_fault_event: the state waited for is "completed"
create_fault_event_completed(trigger_info, new_event_no, trigger_event_no, dly) ==
    [no |-> new_event_no,
     times |-> 1,
     action |-> [type |-> Get(trigger_info.action_type, "can_communication_error"),
                 params |-> action_params(trigger_info)],
     start_trigger |->
         <<Trigger(<< <<Condition("event_state",
                                  <<CondParam("event_no", IntVal(trigger_event_no)),
                                    CondParam("state", StrVal("completed"))>>,
                                  dly)>> >>)>>,
     criteria |-> <<[target_name |-> "-", expressions |-> <<>>]>>,
     remarks |-> <<"fault trigger: " \o Get(trigger_info.signal_name, "UNKNOWN")>>,
     test_procedure_order |-> <<new_event_no>>]

\* mutant of create_fault_event: the new event takes the anchor's number
create_fault_event_same_no(trigger_info, new_event_no, trigger_event_no, dly) ==
    [no |-> trigger_event_no,
     times |-> 1,
     action |-> [type |-> Get(trigger_info.action_type, "can_communication_error"),
                 params |-> action_params(trigger_info)],
     start_trigger |-> <<Trigger(<< <<EventState(IntVal(trigger_event_no), dly)>> >>)>>,
     criteria |-> <<[target_name |-> "-", expressions |-> <<>>]>>,
     remarks |-> <<"fault trigger: " \o Get(trigger_info.signal_name, "UNKNOWN")>>,
     test_procedure_order |-> <<new_event_no>>]

\* _create_fault_event.  The remark is the f-string
\* "異常系トリガー: {signal_name}", written here with an ASCII prefix.
create_fault_event(trigger_info, new_event_no, trigger_event_no, dly) ==
    [no |-> new_event_no,
     times |-> 1,
     action |-> [type |-> Get(trigger_info.action_type, "can_communication_error"),
                 params |-> action_params(trigger_info)],
     start_trigger |-> <<Trigger(<< <<EventState(IntVal(trigger_event_no), dly)>> >>)>>,
     criteria |-> <<[target_name |-> "-", expressions |-> <<>>]>>,
     remarks |-> <<"fault trigger: " \o Get(trigger_info.signal_name, "UNKNOWN")>>,
     test_procedure_order |-> <<new_event_no>>]

\* mutant of ListInsert: events[index] = x, overwriting the event at the index
ListAssign(events, index, x) ==
    IF index < Len(events) THEN [events EXCEPT ![index + 1] = x] ELSE Append(events, x)

\* list.insert(index, x), 0-based index within 0..len
ListInsert(events, index, x) ==
    SubSeq(events, 1, index) \o <<x>> \o SubSeq(events, index + 1, Len(events))

\* mutant of renumber_events: new_no = old_no + 1
renumber_events_old_plus_one(events, start_index, start_no) ==
    [i \in 1..Len(events) |->
        IF i > start_index THEN [events[i] EXCEPT !.no = events[i].no + 1] ELSE events[i]]

\* mutant of renumber_events: new_no = start_no + i, start_index not subtracted
renumber_events_no_offset(events, start_index, start_no) ==
    [k \in 1..Len(events) |->
        IF k - 1 >= start_index
        THEN [events[k] EXCEPT !.no = start_no + (k - 1)]
        ELSE events[k]]

\* mutant of renumber_events: the loop starts one event late
renumber_events_late(events, start_index, start_no) ==
    [k \in 1..Len(events) |->
        IF k - 1 >= start_index + 1
        THEN [events[k] EXCEPT !.no = start_no + ((k - 1) - start_index)]
        ELSE events[k]]

\* _renumber_events: events[i]["no"] = start_no + (i - start_index) for every
\* 0-based i in range(start_index, len(events))
renumber_events(events, start_index, start_no) ==
    [k \in 1..Len(events) |->
        IF k - 1 >= start_index
        THEN [events[k] EXCEPT !.no = start_no + ((k - 1) - start_index)]
        ELSE events[k]]

\* mutant of update_param: every integer event_no is shifted
update_param_all(param, inserted_event_no) ==
    IF param.name = "event_no" /\ IsInt(param.value)
    THEN [param EXCEPT !.value = IntVal(param.value.i + 1)]
    ELSE param

\* mutant of update_param: a reference to the anchor is shifted too
update_param_from_anchor(param, inserted_event_no) ==
    IF param.name = "event_no" /\ IsInt(param.value) /\ param.value.i >= inserted_event_no - 1
    THEN [param EXCEPT !.value = IntVal(param.value.i + 1)]
    ELSE param

\* mutant of update_param: old_value > inserted_event_no
update_param_strict(param, inserted_event_no) ==
    IF param.name = "event_no" /\ IsInt(param.value) /\ param.value.i > inserted_event_no
    THEN [param EXCEPT !.value = IntVal(param.value.i + 1)]
    ELSE param

\* the rewrite of one parameter of an event_state condition (lines 259-263)
update_param(param, inserted_event_no) ==
    IF param.name = "event_no" /\ IsInt(param.value) /\ param.value.i >= inserted_event_no
    THEN [param EXCEPT !.value = IntVal(param.value.i + 1)]
    ELSE param

\* mutant of update_condition: the rewritten condition is built anew and its
\* delay is not carried over
update_condition_reset_delay(condition, inserted_event_no) ==
    IF condition.type = "event_state"
    THEN [type |-> condition.type,
          params |-> [k \in 1..Len(condition.params) |->
                         update_param(condition.params[k], inserted_event_no)],
          delay |-> 0]
    ELSE condition

\* the rewrite of one condition (lines 255-258)
update_condition(condition, inserted_event_no) ==
    IF condition.type = "event_state"
    THEN [condition EXCEPT !.params =
            [k \in 1..Len(condition.params) |->
                update_param(condition.params[k], inserted_event_no)]]
    ELSE condition

\* _update_trigger_references
update_trigger_references(trigger, inserted_event_no) ==
    [trigger EXCEPT !.condition_groups =
        [g \in 1..Len(trigger.condition_groups) |->
            [c \in 1..Len(trigger.condition_groups[g]) |->
                update_condition(trigger.condition_groups[g][c], inserted_event_no)]]]

\* mutant of update_event_references: the walk stops before the last event
update_event_references_but_last(events, inserted_event_no) ==
    [k \in 1..Len(events) |->
        IF events[k].start_trigger # <<>> /\ k < Len(events)
        THEN [events[k] EXCEPT !.start_trigger =
                <<update_trigger_references(events[k].start_trigger[1], inserted_event_no)>>]
        ELSE events[k]]

\* _update_event_references: every event of the list that has a start_trigger
update_event_references(events, inserted_event_no) ==
    [k \in 1..Len(events) |->
        IF events[k].start_trigger # <<>>
        THEN [events[k] EXCEPT !.start_trigger =
                <<update_trigger_references(events[k].start_trigger[1], inserted_event_no)>>]
        ELSE events[k]]

\* mutant of update_test_procedure_order: an event without the key is skipped
update_test_procedure_order_present(events) ==
    [k \in 1..Len(events) |->
        IF events[k].test_procedure_order = <<>> THEN events[k]
        ELSE [events[k] EXCEPT !.test_procedure_order = <<k>>]]

\* _update_test_procedure_order: enumerate(events, 1)
update_test_procedure_order(events) ==
    [k \in 1..Len(events) |-> [events[k] EXCEPT !.test_procedure_order = <<k>>]]

\* _extract_referenced_events: the int event_no values of the event_state
\* conditions of a trigger, in document order
RECURSIVE FlattenSeq(_)
FlattenSeq(ss) == IF ss = <<>> THEN <<>> ELSE Head(ss) \o FlattenSeq(Tail(ss))

SelectValues(params) ==
    LET keep(p) == p.name = "event_no" /\ IsInt(p.value)
        sel == SelectSeq(params, keep)
    IN  [k \in 1..Len(sel) |-> sel[k].value.i]

extract_referenced_events(trigger) ==
    FlattenSeq([g \in 1..Len(trigger.condition_groups) |->
        FlattenSeq([c \in 1..Len(trigger.condition_groups[g]) |->
            IF trigger.condition_groups[g][c].type = "event_state"
            THEN SelectValues(trigger.condition_groups[g][c].params)
            ELSE <<>>])])

\* mutant of contiguity_errors: the walk stops at the first mismatch
contiguity_errors_first(events) ==
    LET bad(k) == events[k].no # k
        idx == SelectSeq([k \in 1..Len(events) |-> k], bad)
    IN  [n \in 1..(IF idx = <<>> THEN 0 ELSE 1) |->
            [kind |-> "discontinuous", expected |-> idx[n], actual |-> events[idx[n]].no]]

\* the contiguity messages of one timeline (lines 291-296):
\* "イベント番号が不連続: 期待値={expected}, 実際={actual}"
contiguity_errors(events) ==
    LET bad(k) == events[k].no # k
        idx == SelectSeq([k \in 1..Len(events) |-> k], bad)
    IN  [n \in 1..Len(idx) |->
            [kind |-> "discontinuous", expected |-> idx[n], actual |-> events[idx[n]].no]]

\* mutant of event_reference_errors: the number 0 is looked up like any other
event_reference_errors_no_sentinel(event, event_numbers) ==
    IF event.start_trigger = <<>> THEN <<>>
    ELSE LET refs == extract_referenced_events(event.start_trigger[1])
             dangling(r) == r \notin event_numbers
             sel == SelectSeq(refs, dangling)
         IN  [n \in 1..Len(sel) |->
                [kind |-> "dangling", event_no |-> event.no, ref_no |-> sel[n]]]

\* the reference messages of one event (lines 305-309):
\* "イベント{no}が存在しないイベント{ref_no}を参照"
event_reference_errors(event, event_numbers) ==
    IF event.start_trigger = <<>> THEN <<>>
    ELSE LET refs == extract_referenced_events(event.start_trigger[1])
             dangling(r) == r \notin event_numbers /\ r # 0
             sel == SelectSeq(refs, dangling)
         IN  [n \in 1..Len(sel) |->
                [kind |-> "dangling", event_no |-> event.no, ref_no |-> sel[n]]]

\* the reference messages of one timeline (lines 301-309)
reference_errors(events) ==
    LET event_numbers == {events[k].no : k \in 1..Len(events)}
    IN  FlattenSeq([k \in 1..Len(events) |-> event_reference_errors(events[k], event_numbers)])

\* mutant of validate_scenario: a reference is looked up among the event
\* numbers of all timelines
validate_scenario_any_timeline(scenario) ==
    IF scenario.story = <<>> THEN <<>>
    ELSE LET story == scenario.story[1]
             event_numbers ==
                 UNION {{story[a].events[k].no : k \in 1..Len(story[a].events)} :
                           a \in 1..Len(story)}
             errs(events) ==
                 FlattenSeq([k \in 1..Len(events) |->
                                event_reference_errors(events[k], event_numbers)])
         IN  FlattenSeq([a \in 1..Len(story) |-> contiguity_errors(story[a].events)])
             \o FlattenSeq([a \in 1..Len(story) |-> errs(story[a].events)])

\* validate_scenario: the list of messages, contiguity first, then references
validate_scenario(scenario) ==
    IF scenario.story = <<>> THEN <<>>
    ELSE LET story == scenario.story[1]
         IN  FlattenSeq([a \in 1..Len(story) |-> contiguity_errors(story[a].events)])
             \o FlattenSeq([a \in 1..Len(story) |-> reference_errors(story[a].events)])

\* mutant of deepcopy: no copy is taken, the name is bound to the same object
no_copy(h, ref) == [heap |-> h, ref |-> ref]

\* mutant of deepcopy: the copy is taken once and kept; later calls get the
\* object the first call copied
deepcopy_once(h, ref) ==
    IF Len(h) > 1 THEN [heap |-> h, ref |-> 2]
    ELSE [heap |-> Append(h, h[ref]), ref |-> Len(h) + 1]

\* copy.deepcopy(heap[ref]): a fresh object holding an equal document
deepcopy(h, ref) == [heap |-> Append(h, h[ref]), ref |-> Len(h) + 1]

\* ValueError(msg); `no` is the number formatted into the message (0: none)
ValueError(msg, no) == [type |-> "ValueError", msg |-> msg, no |-> no]

\* mutant of find_ego_story: the last actor story is taken, whatever its name
find_ego_story_last(story) == Len(story)

\* mutant of find_ego_story: without an ego story the first story is taken
find_ego_story_or_first(story) ==
    LET hits == {a \in 1..Len(story) : story[a].actor_name = "ego"}
    IN  IF hits = {} THEN 1 ELSE CHOOSE a \in hits : \A b \in hits : a <= b

\* lines 38-42: the first actor story named "ego", 0 for None
find_ego_story(story) ==
    LET hits == {a \in 1..Len(story) : story[a].actor_name = "ego"}
    IN  IF hits = {} THEN 0 ELSE CHOOSE a \in hits : \A b \in hits : a <= b

\* lines 66-76 on the list `events`: insert, renumber the tail, rewrite the
\* references, recompute the procedural order
mutate_events(events, insert_index, fault_event, after_event_no) ==
    update_test_procedure_order(
        update_event_references(
            renumber_events(ListInsert(events, insert_index, fault_event),
                            insert_index + 1, after_event_no + 2),
            after_event_no + 1))

\* inject_fault_event as a function of its arguments: the outcome of the
\* call, [returned |-> <<document>>, raised |-> <<>>] or
\* [returned |-> <<>>, raised |-> <<error>>]
inject_fault_event(scenario, trigger_info, after_event_no, dly) ==
    LET fail(msg, no) == [returned |-> <<>>, raised |-> <<ValueError(msg, no)>>]
    IN  IF scenario.story = <<>> \/ Len(scenario.story[1]) = 0
        THEN fail("no story section", 0)
        ELSE LET ego == find_ego_story(scenario.story[1])
             IN  IF ego = 0 THEN fail("ego story not found", 0)
                 ELSE LET events == scenario.story[1][ego].events
                          idx == find_insert_position(events, after_event_no)
                          ev == create_fault_event(trigger_info, after_event_no + 1,
                                                   after_event_no, dly)
                      IN  IF events = <<>> THEN fail("event list is empty", 0)
                          ELSE IF idx = -1 THEN fail("event number not found", after_event_no)
                          ELSE [returned |->
                                   <<[scenario EXCEPT !.story[1][ego].events =
                                         mutate_events(events, idx, ev, after_event_no)]>>,
                                raised |-> <<>>]

\* ------------------------------------------------------------------ inputs

\* the integers an input event_no parameter is drawn from: the sentinel 0, the
\* numbers of a full timeline, and one number past it
RefValues == 0..(MaxEvents + 1)

\* the anchors a call is made with: every number of a full timeline, 0, and
\* one number past it
Anchors == 0..(MaxEvents + 1)

\* start_trigger with one group holding one event_state condition on event v
SingleRef(v) == <<Trigger(<< <<EventState(IntVal(v), 0)>> >>)>>

\* start_trigger with two groups: a condition of another kind that carries an
\* event_no, then event_state conditions on events 2 and 1
MixedTrigger ==
    <<Trigger(<< <<Condition("time", <<CondParam("event_no", IntVal(2))>>, 5)>>,
                 <<EventState(IntVal(2), 0), EventState(IntVal(1), 1)>> >>)>>

\* start_trigger whose event_no is the string "2", not an integer
StringTrigger == <<Trigger(<< <<EventState(StrVal("2"), 0)>> >>)>>

TriggerOptions ==
    {<<>>, MixedTrigger, StringTrigger} \cup {SingleRef(v) : v \in RefValues}

\* the action type of the k-th event of an input timeline of actor `actor`:
\* distinct per event, so that an event can be followed through a mutation
ActionName(actor, k) == actor \o "_action_" \o NatStr(k)

\* every sequence over S of length 0..n
SeqsUpTo(S, n) == UNION {[1..m -> S] : m \in 0..n}

\* the trigger description of test_fault_injection
TestTrigger ==
    TriggerInfo(<<"CAN_BRAKE_ERROR">>, <<IntVal(1)>>, <<"can_communication_error">>, <<>>)

\* timelines numbered 1..n with the procedural order of the position and any
\* start_trigger on each event
RefTimelines ==
    {[k \in 1..Len(ts) |-> Event(k, ActionName("ego", k), ts[k], <<k>>)] : ts \in SeqsUpTo(TriggerOptions, MaxEvents)}

\* timelines with any numbers, without triggers
NumberTimelines ==
    {[k \in 1..Len(ns) |-> Event(ns[k], ActionName("ego", k), <<>>, <<k>>)] : ns \in SeqsUpTo(1..(MaxEvents + 1), MaxEvents)}

\* timelines numbered 1..n whose test_procedure_order is missing, duplicated
\* or out of order
OrderTimelines ==
    {[k \in 1..Len(os) |-> Event(k, ActionName("ego", k), <<>>, os[k])] :
        os \in SeqsUpTo({<<>>, <<1>>, <<MaxEvents + 1>>}, MaxEvents)}

\* the chain 1 <- 2 <- ... <- n: each event waits for its predecessor
ChainTimeline(n) ==
    [k \in 1..n |->
        Event(k, ActionName("ego", k), IF k = 1 THEN <<>> ELSE SingleRef(k - 1), <<k>>)]

\* a timeline of n events of `actor` that all wait for event r
StarTimeline(actor, n, r) ==
    [k \in 1..n |-> Event(k, ActionName(actor, k), SingleRef(r), <<k>>)]

\* the actor stories the multi-actor documents are built from
ActorStories ==
    {ActorStory("ego", ChainTimeline(n)) : n \in 0..MaxEvents}
    \cup {ActorStory(actor, StarTimeline(actor, n, r)) :
              actor \in {"npc", "lead"}, n \in 1..MaxEvents, r \in RefValues}

\* documents with one ego timeline
EgoOnly(timelines) == {Scenario("base", "normal", << <<ActorStory("ego", evs)>> >>) : evs \in timelines}

\* an actor timeline is identified by its actor name
DistinctActors(st) ==
    \A a, b \in 1..Len(st) : a # b => st[a].actor_name # st[b].actor_name

\* documents without a story key, with an empty story, and with one or two
\* actor stories
LayoutScenarios ==
    {Scenario("base", "normal", <<>>)}
    \cup {Scenario("base", "normal", <<st>>) :
              st \in {x \in SeqsUpTo(ActorStories, 2) : DistinctActors(x)}}

BaseScenarios ==
    EgoOnly(RefTimelines) \cup EgoOnly(NumberTimelines) \cup EgoOnly(OrderTimelines)
    \cup LayoutScenarios

\* the base scenario of test_fault_injection
TestScenario == Scenario("base", "normal", << <<ActorStory("ego", ChainTimeline(3))>> >>)

\* trigger descriptions: every key present or absent, the action types of the
\* shaping code and one it does not know
TriggerInfos ==
    {TriggerInfo(sn, v, at, tg) :
        sn \in {<<>>, <<"CAN_BRAKE_ERROR">>},
        v  \in {<<>>, <<IntVal(1)>>, <<StrVal("0x10")>>},
        at \in {<<>>, <<"can_communication_error">>, <<"lin_communication_error">>,
                <<"brake">>, <<"steering">>, <<"accel">>},
        tg \in {<<>>, <<StrVal("BRAKE_ECU")>>}}

\* delays in seconds: the default 3.0, zero, and a negative one
Delays == {-1, 0, 3}

Call(b, t, a, d) ==
    [base_scenario |-> b, trigger_info |-> t, after_event_no |-> a, delay |-> d]

\* the calls of inject_fault_event: every base scenario with the trigger and
\* the delay of the test, and the test's scenario with every trigger and delay
Calls ==
    {Call(b, TestTrigger, a, 3) : b \in BaseScenarios, a \in Anchors}
    \cup {Call(TestScenario, t, a, d) : t \in TriggerInfos, a \in Anchors, d \in Delays}

\* ------------------------------------------------------------------- state

VARIABLES
    heap,            \* object id -> scenario document
    base_scenario,   \* argument: object id of the base scenario
    trigger_info,    \* argument
    after_event_no,  \* argument
    delay,           \* argument
    pc,              \* line of inject_fault_event about to run
    new_scenario,    \* local: object id of the copy (0 before line 31)
    ego_story,       \* local: 1-based index of the ego actor story (0: None)
    insert_index,    \* local
    fault_event,     \* local: <<>> before line 59
    returned,        \* <<object id>> once the call has returned
    raised,          \* <<error>> once the call has raised
    base0,           \* the base scenario document as it was at the call
    trigger0,        \* the trigger description as it was at the call
    origin,          \* caller: the document the first call was given
    history,         \* caller: the anchors of the calls made so far, in order
    errors,          \* caller: <<list>> once validate_scenario has returned
    thread,          \* the thread whose call the variables above belong to
    suspended,       \* the calls of the threads that are not running
    common_settings,      \* generate_scenarios: common_settings of the mappings
    trigger_requirements, \* generate_scenarios: the list of trigger descriptions
    injection_points,     \* generate_scenarios: the injection points, in dict order
    attempts,             \* generate_scenarios: the combinations begun, in order
    generated_files,      \* generate_scenarios: the paths appended so far
    saved                 \* generate_scenarios: the documents written, in order

vars == <<heap, base_scenario, trigger_info, after_event_no, delay, pc, new_scenario,
          ego_story, insert_index, fault_event, returned, raised, base0, trigger0,
          origin, history, errors, thread, suspended, common_settings,
          trigger_requirements, injection_points, attempts, generated_files, saved>>

args == <<base_scenario, trigger_info, after_event_no, delay, base0, trigger0>>

\* what belongs to the caller of inject_fault_event and to the scheduler; no
\* line of inject_fault_event touches it
caller == <<origin, history, errors, thread, suspended, common_settings,
            trigger_requirements, injection_points, attempts, generated_files, saved>>

\* the variables of generate_scenarios
batch == <<common_settings, trigger_requirements, injection_points, attempts,
           generated_files, saved>>

\* generate_scenarios is not running
NoBatch ==
    /\ common_settings = [injection_points |-> <<>>]
    /\ trigger_requirements = <<>>
    /\ injection_points = <<>>
    /\ attempts = <<>>
    /\ generated_files = <<>>
    /\ saved = <<>>

\* the list `events` of line 47: the events of the ego story of the copy
EventsOf(h, ref, ego) == h[ref].story[1][ego].events

\* an in-place change of that list
WithEvents(h, ref, ego, evs) == [h EXCEPT ![ref].story[1][ego].events = evs]

Init ==
    /\ \E call \in Calls :
          /\ heap = <<call.base_scenario>>
          /\ base0 = call.base_scenario
          /\ trigger_info = call.trigger_info
          /\ after_event_no = call.after_event_no
          /\ delay = call.delay
    /\ base_scenario = 1
    /\ trigger0 = trigger_info
    /\ pc = "deepcopy"
    /\ new_scenario = 0
    /\ ego_story = 0
    /\ insert_index = 0
    /\ fault_event = <<>>
    /\ returned = <<>>
    /\ raised = <<>>
    /\ origin = base0
    /\ history = <<after_event_no>>
    /\ errors = <<>>
    /\ NoBatch
    /\ thread = 1
    /\ suspended = <<>>

\* raise: the call ends without a return value
Raise(err) ==
    /\ raised' = <<err>>
    /\ pc' = "raised"

\* line 31
DeepCopy ==
    /\ pc = "deepcopy"
    /\ LET c == deepcopy(heap, base_scenario)
       IN  /\ heap' = c.heap
           /\ new_scenario' = c.ref
    /\ pc' = "check_story"
    /\ UNCHANGED <<args, caller, ego_story, insert_index, fault_event, returned, raised>>

\* lines 34-35: "シナリオにstoryセクションがありません"
CheckStory ==
    /\ pc = "check_story"
    /\ IF heap[new_scenario].story = <<>> \/ Len(heap[new_scenario].story[1]) = 0
       THEN Raise(ValueError("no story section", 0))
       ELSE pc' = "find_ego" /\ UNCHANGED raised
    /\ UNCHANGED <<args, caller, heap, new_scenario, ego_story, insert_index, fault_event, returned>>

\* lines 38-45: "egoアクターのstoryが見つかりません"
FindEgo ==
    /\ pc = "find_ego"
    /\ LET ego == find_ego_story(heap[new_scenario].story[1])
       IN  /\ ego_story' = ego
           /\ IF ego = 0
              THEN Raise(ValueError("ego story not found", 0))
              ELSE pc' = "get_events" /\ UNCHANGED raised
    /\ UNCHANGED <<args, caller, heap, new_scenario, insert_index, fault_event, returned>>

\* lines 47-49: "イベントリストが空です"
GetEvents ==
    /\ pc = "get_events"
    /\ IF EventsOf(heap, new_scenario, ego_story) = <<>>
       THEN Raise(ValueError("event list is empty", 0))
       ELSE pc' = "find_position" /\ UNCHANGED raised
    /\ UNCHANGED <<args, caller, heap, new_scenario, ego_story, insert_index, fault_event, returned>>

\* lines 52-54: "イベント番号 {after_event_no} が見つかりません"
FindPosition ==
    /\ pc = "find_position"
    /\ LET idx == find_insert_position(EventsOf(heap, new_scenario, ego_story), after_event_no)
       IN  /\ insert_index' = idx
           /\ IF idx = -1
              THEN Raise(ValueError("event number not found", after_event_no))
              ELSE pc' = "create" /\ UNCHANGED raised
    /\ UNCHANGED <<args, caller, heap, new_scenario, ego_story, fault_event, returned>>

\* lines 59-64
CreateFaultEvent ==
    /\ pc = "create"
    /\ fault_event' = <<create_fault_event(trigger_info, after_event_no + 1, after_event_no, delay)>>
    /\ pc' = "insert"
    /\ UNCHANGED <<args, caller, heap, new_scenario, ego_story, insert_index, returned, raised>>

\* line 67 puts the dict object of the local fault_event into the list: from
\* then on the local and the list element at insert_index are one object, and
\* what lines 70-76 write to that element shows in the local
InsertedObject(h) == <<EventsOf(h, new_scenario, ego_story)[insert_index + 1]>>

\* line 67
InsertEvent ==
    /\ pc = "insert"
    /\ heap' = WithEvents(heap, new_scenario, ego_story,
                 ListInsert(EventsOf(heap, new_scenario, ego_story), insert_index, fault_event[1]))
    /\ pc' = "renumber"
    /\ UNCHANGED <<args, caller, new_scenario, ego_story, insert_index, fault_event, returned, raised>>

\* line 70
RenumberEvents ==
    /\ pc = "renumber"
    /\ heap' = WithEvents(heap, new_scenario, ego_story,
                 renumber_events(EventsOf(heap, new_scenario, ego_story),
                                 insert_index + 1, after_event_no + 2))
    /\ fault_event' = InsertedObject(heap')
    /\ pc' = "update_references"
    /\ UNCHANGED <<args, caller, new_scenario, ego_story, insert_index, returned, raised>>

\* line 73
UpdateEventReferences ==
    /\ pc = "update_references"
    /\ heap' = WithEvents(heap, new_scenario, ego_story,
                 update_event_references(EventsOf(heap, new_scenario, ego_story),
                                         after_event_no + 1))
    /\ fault_event' = InsertedObject(heap')
    /\ pc' = "update_order"
    /\ UNCHANGED <<args, caller, new_scenario, ego_story, insert_index, returned, raised>>

\* line 76
UpdateTestProcedureOrder ==
    /\ pc = "update_order"
    /\ heap' = WithEvents(heap, new_scenario, ego_story,
                 update_test_procedure_order(EventsOf(heap, new_scenario, ego_story)))
    /\ fault_event' = InsertedObject(heap')
    /\ pc' = "return"
    /\ UNCHANGED <<args, caller, new_scenario, ego_story, insert_index, returned, raised>>

\* line 80
Return ==
    /\ pc = "return"
    /\ returned' = <<new_scenario>>
    /\ pc' = "done"
    /\ UNCHANGED <<args, caller, heap, new_scenario, ego_story, insert_index, fault_event, raised>>

Next ==
    \/ DeepCopy
    \/ CheckStory
    \/ FindEgo
    \/ GetEvents
    \/ FindPosition
    \/ CreateFaultEvent
    \/ InsertEvent
    \/ RenumberEvents
    \/ UpdateEventReferences
    \/ UpdateTestProcedureOrder
    \/ Return

Spec == Init /\ [][Next]_vars

\* ----------------------------------------------------- vocabulary of the claims

\* the call has returned a scenario
Succeeded == pc = "done"

\* the call has ended, by a return or by an exception
Terminated == pc \in {"done", "raised"}

\* the returned scenario document
Out == heap[returned[1]]

\* the actor stories of a document that has a story key
StoryOf(s) == s.story[1]

\* the target timeline of a document: the first actor story named ego (0: none)
TargetOf(s) ==
    IF s.story = <<>> THEN 0
    ELSE LET egos == {a \in 1..Len(StoryOf(s)) : StoryOf(s)[a].actor_name = "ego"}
         IN  IF egos = {} THEN 0 ELSE CHOOSE a \in egos : \A b \in egos : a <= b

\* the target timeline before and after the call
InEvents == StoryOf(base0)[TargetOf(base0)].events

OutEvents == StoryOf(Out)[TargetOf(base0)].events

\* the position of the anchor: the first input event numbered after_event_no
AnchorPos ==
    CHOOSE i \in 1..Len(InEvents) :
        /\ InEvents[i].no = after_event_no
        /\ \A j \in 1..(i - 1) : InEvents[j].no # after_event_no

\* where the input event of position i sits in the output
NewPos(i) == IF i <= AnchorPos THEN i ELSE i + 1

\* the k-th event is numbered k
Numbered(evs) == \A k \in 1..Len(evs) : evs[k].no = k

\* the places <<group, condition, parameter>> of an event that hold the event_no
\* of an event_state condition
RefSlots(ev) ==
    IF ev.start_trigger = <<>> THEN {}
    ELSE LET gs == ev.start_trigger[1].condition_groups
         IN  {sl \in UNION {UNION {{<<g, c, k>> : k \in 1..Len(gs[g][c].params)} :
                                     c \in 1..Len(gs[g])} : g \in 1..Len(gs)} :
                 /\ gs[sl[1]][sl[2]].type = "event_state"
                 /\ gs[sl[1]][sl[2]].params[sl[3]].name = "event_no"}

SlotValue(ev, sl) == ev.start_trigger[1].condition_groups[sl[1]][sl[2]].params[sl[3]].value

\* every event_state event_no of the timeline is the integer 0 or the number of
\* an event of the timeline
NoDangling(evs) ==
    \A k \in 1..Len(evs) : \A sl \in RefSlots(evs[k]) :
        /\ IsInt(SlotValue(evs[k], sl))
        /\ \/ SlotValue(evs[k], sl).i = 0
           \/ \E j \in 1..Len(evs) : evs[j].no = SlotValue(evs[k], sl).i

\* each timeline numbered 1..n in order
ContiguousScenario(s) ==
    s.story # <<>> /\ \A a \in 1..Len(StoryOf(s)) : Numbered(StoryOf(s)[a].events)

\* contiguous numbering and no dangling reference
WellFormed(s) ==
    ContiguousScenario(s) /\ \A a \in 1..Len(StoryOf(s)) : NoDangling(StoryOf(s)[a].events)

\* the messages of validate_scenario of the given kind
Violations(s, kind) ==
    {n \in 1..Len(validate_scenario(s)) : validate_scenario(s)[n].kind = kind}

\* ------------------------------------------------------------------ claims

\* C1: contiguity preserved.  For a well-formed input scenario (each timeline
\* numbered 1..n in order) and an anchor of the ego timeline, every timeline
\* of the returned scenario has its k-th event numbered k, and
\* validate_scenario reports no contiguity violation on it.
C1_ContiguityPreserved ==
    (Succeeded /\ ContiguousScenario(base0))
        => /\ ContiguousScenario(Out)
           /\ Violations(Out, "discontinuous") = {}

\* a well-numbered scenario of two timelines, inserted into before the end of
\* the ego timeline, so that a tail was renumbered
C1_Witness ==
    /\ Succeeded
    /\ ContiguousScenario(base0)
    /\ Len(StoryOf(base0)) = 2
    /\ AnchorPos < Len(InEvents)
    /\ Len(OutEvents) = Len(InEvents) + 1

\* C2: no dangling references.  For a well-formed input (contiguous numbering,
\* every event_state event_no 0 or a number of the same timeline) and a valid
\* anchor, every event_state event_no of the returned scenario, the inserted
\* event's included, is 0 or a number of the same timeline, and
\* validate_scenario reports no reference-existence violation.
C2_NoDanglingReferences ==
    (Succeeded /\ WellFormed(base0))
        => /\ \A a \in 1..Len(StoryOf(Out)) : NoDangling(StoryOf(Out)[a].events)
           /\ Violations(Out, "dangling") = {}

\* a well-formed input whose last event is referenced, inserted into before
\* that event, so that the reference had to follow the renumbering
C2_Witness ==
    /\ Succeeded
    /\ WellFormed(base0)
    /\ AnchorPos < Len(InEvents)
    /\ \E k \in 1..Len(InEvents) : \E sl \in RefSlots(InEvents[k]) :
          SlotValue(InEvents[k], sl).i = Len(InEvents)

\* C3: input immutability.  At every point of a call, and after it has
\* returned or raised, the base scenario object holds the document it held at
\* the call and the trigger description is the one passed in.
C3_InputImmutable ==
    /\ heap[base_scenario] = base0
    /\ trigger_info = trigger0

\* a call that returned a scenario differing from the base
C3_Witness ==
    /\ Succeeded
    /\ Out # base0
    /\ heap[base_scenario] = base0

\* a call that raised after the copy was taken
C3_WitnessFailed ==
    /\ pc = "raised"
    /\ heap[base_scenario] = base0

\* C4: monotonic growth.  After a successful call the mutated timeline has
\* exactly one more event than its input counterpart and every other timeline
\* has as many events as in the input.
C4_MonotonicGrowth ==
    Succeeded =>
        /\ Len(StoryOf(Out)) = Len(StoryOf(base0))
        /\ \A a \in 1..Len(StoryOf(base0)) :
              Len(StoryOf(Out)[a].events) =
                  Len(StoryOf(base0)[a].events) + (IF a = TargetOf(base0) THEN 1 ELSE 0)

\* a successful call on a scenario with another timeline beside the ego one
C4_Witness ==
    /\ Succeeded
    /\ Len(StoryOf(base0)) = 2
    /\ Len(OutEvents) = Len(InEvents) + 1
    /\ \E a \in 1..2 : a # TargetOf(base0) /\ StoryOf(Out)[a].events # <<>>

\* C5: re-chaining of the anchor's successor.  After inserting after anchor A,
\* the input event numbered A+1 that follows the anchor is numbered A+2 and
\* each of its event_state references to A is a reference to A+1.
C5_SuccessorRechained ==
    (/\ Succeeded
     /\ AnchorPos < Len(InEvents)
     /\ InEvents[AnchorPos + 1].no = after_event_no + 1)
        => /\ OutEvents[AnchorPos + 2].no = after_event_no + 2
           /\ \A sl \in RefSlots(InEvents[AnchorPos + 1]) :
                 SlotValue(InEvents[AnchorPos + 1], sl) = IntVal(after_event_no)
                     => SlotValue(OutEvents[AnchorPos + 2], sl) = IntVal(after_event_no + 1)

\* the successor's number alone: the input event A+1 is numbered A+2
C5_SuccessorRenumbered ==
    (/\ Succeeded
     /\ AnchorPos < Len(InEvents)
     /\ InEvents[AnchorPos + 1].no = after_event_no + 1)
        => OutEvents[AnchorPos + 2].no = after_event_no + 2

\* C6: reference targets are preserved.  For a well-formed input and a valid
\* anchor A, every event_state reference of a pre-existing event of the
\* mutated timeline that pointed at event v >= 1 holds v if v <= A and v + 1
\* if v > A, and the event carrying that number in the output is the event
\* that carried v in the input.
C6_TargetsPreserved ==
    (Succeeded /\ WellFormed(base0))
        => \A i \in 1..Len(InEvents) : \A sl \in RefSlots(InEvents[i]) :
              LET v == SlotValue(InEvents[i], sl).i
                  w == SlotValue(OutEvents[NewPos(i)], sl)
              IN  v >= 1 =>
                    /\ w = IntVal(IF v <= after_event_no THEN v ELSE v + 1)
                    /\ \E j \in 1..Len(OutEvents) :
                          /\ OutEvents[j].no = w.i
                          /\ OutEvents[j].action = InEvents[v].action

\* a well-formed input holding a backward, a forward and a self reference,
\* one of them to an event after the anchor
C6_Witness ==
    /\ Succeeded
    /\ WellFormed(base0)
    /\ \E i, j, k \in 1..Len(InEvents) :
          /\ \E sl \in RefSlots(InEvents[i]) :
                SlotValue(InEvents[i], sl).i \in 1..(i - 1)
          /\ \E sl \in RefSlots(InEvents[j]) :
                /\ SlotValue(InEvents[j], sl).i > j
                /\ SlotValue(InEvents[j], sl).i > after_event_no
          /\ \E sl \in RefSlots(InEvents[k]) : SlotValue(InEvents[k], sl).i = k

\* the references of timeline a of the input that are integers >= A + 1 hold one
\* more in the output; `mutated` tells whether a is the timeline that received
\* the new event, whose events after the anchor sit one position later
Shifted(a, mutated) ==
    \A i \in 1..Len(StoryOf(base0)[a].events) :
        \A sl \in RefSlots(StoryOf(base0)[a].events[i]) :
            LET v == SlotValue(StoryOf(base0)[a].events[i], sl)
                j == IF mutated THEN NewPos(i) ELSE i
            IN  (IsInt(v) /\ v.i >= after_event_no + 1)
                    => SlotValue(StoryOf(Out)[a].events[j], sl) = IntVal(v.i + 1)

\* C7 as stated: after a successful insertion at anchor A, in every actor
\* timeline of the scenario every event_state event_no that was an integer
\* >= A + 1 is incremented by exactly 1.
C7_ScenarioWideRewrite ==
    Succeeded =>
        \A a \in 1..Len(StoryOf(base0)) : Shifted(a, a = TargetOf(base0))

\* the event_no values of timeline a are those of the input
Unshifted(a) ==
    \A i \in 1..Len(StoryOf(base0)[a].events) :
        \A sl \in RefSlots(StoryOf(base0)[a].events[i]) :
            SlotValue(StoryOf(Out)[a].events[i], sl) = SlotValue(StoryOf(base0)[a].events[i], sl)

\* C7 as amended: after a successful insertion at anchor A, in the mutated
\* timeline every event_state event_no that was an integer >= A + 1 is
\* incremented by exactly 1, and in every other timeline every event_no is
\* left as it was.
C7_TimelineLocalRewrite ==
    Succeeded =>
        /\ Shifted(TargetOf(base0), TRUE)
        /\ \A a \in 1..Len(StoryOf(base0)) : a # TargetOf(base0) => Unshifted(a)

\* a successful insertion where the mutated timeline and another timeline
\* both hold a reference >= A + 1: the first is one more, the second is kept
C7_Witness ==
    /\ Succeeded
    /\ \E i \in 1..Len(InEvents) : \E sl \in RefSlots(InEvents[i]) :
          /\ SlotValue(InEvents[i], sl).i >= after_event_no + 1
          /\ SlotValue(OutEvents[NewPos(i)], sl).i = SlotValue(InEvents[i], sl).i + 1
    /\ \E a \in 1..Len(StoryOf(base0)) :
          /\ a # TargetOf(base0)
          /\ \E i \in 1..Len(StoryOf(base0)[a].events) :
                \E sl \in RefSlots(StoryOf(base0)[a].events[i]) :
                    /\ SlotValue(StoryOf(base0)[a].events[i], sl).i >= after_event_no + 1
                    /\ SlotValue(StoryOf(Out)[a].events[i], sl)
                           = SlotValue(StoryOf(base0)[a].events[i], sl)

\* C8: procedural order is fully recomputed.  After a successful call every
\* event of the mutated timeline, the inserted one included, has
\* test_procedure_order equal to its 1-based position, whatever the input's
\* values were.
C8_OrderRecomputed ==
    Succeeded => \A k \in 1..Len(OutEvents) : OutEvents[k].test_procedure_order = <<k>>

\* a successful call on a timeline with a missing and a wrong
\* test_procedure_order before the anchor
C8_Witness ==
    /\ Succeeded
    /\ \E i, j \in 1..AnchorPos :
          /\ InEvents[i].test_procedure_order = <<>>
          /\ InEvents[j].test_procedure_order # <<>>
          /\ InEvents[j].test_procedure_order # <<j>>
    /\ \A k \in 1..Len(OutEvents) : OutEvents[k].test_procedure_order = <<k>>

\* the call failed with the anchor-not-found error naming after_event_no,
\* returned nothing and left the base scenario as it was
AnchorNotFound ==
    /\ raised = <<ValueError("event number not found", after_event_no)>>
    /\ returned = <<>>
    /\ heap[base_scenario] = base0

\* C9 as stated: when no event of the target timeline carries the anchor
\* number, the call fails with the anchor-not-found error naming that number,
\* returns no scenario and leaves the input unchanged.
C9_AnchorNotFound ==
    (/\ Terminated
     /\ TargetOf(base0) # 0
     /\ \A i \in 1..Len(InEvents) : InEvents[i].no # after_event_no)
        => AnchorNotFound

\* C9 as amended: the same, for a target timeline that has at least one event.
C9_AnchorNotFoundNonEmpty ==
    (/\ Terminated
     /\ TargetOf(base0) # 0
     /\ InEvents # <<>>
     /\ \A i \in 1..Len(InEvents) : InEvents[i].no # after_event_no)
        => AnchorNotFound

\* a call on a non-empty target timeline without the anchor number has failed
C9_Witness ==
    /\ pc = "raised"
    /\ TargetOf(base0) # 0
    /\ Len(InEvents) >= 2
    /\ \A i \in 1..Len(InEvents) : InEvents[i].no # after_event_no
    /\ after_event_no >= 1
    /\ AnchorNotFound

\* C10: actor not found.  When the scenario has a non-empty story without a
\* timeline of the target actor, the call fails with the actor-not-found
\* error and returns no scenario.
C10_ActorNotFound ==
    (/\ Terminated
     /\ base0.story # <<>>
     /\ StoryOf(base0) # <<>>
     /\ \A a \in 1..Len(StoryOf(base0)) : StoryOf(base0)[a].actor_name # "ego")
        => /\ raised = <<ValueError("ego story not found", 0)>>
           /\ returned = <<>>

\* a call on a scenario of two timelines, none of them the ego's, has failed
C10_Witness ==
    /\ pc = "raised"
    /\ base0.story # <<>>
    /\ Len(StoryOf(base0)) = 2
    /\ \A a \in 1..Len(StoryOf(base0)) : StoryOf(base0)[a].actor_name # "ego"
    /\ raised = <<ValueError("ego story not found", 0)>>

\* the inserted event as the returned scenario holds it
InsertedEvent == OutEvents[AnchorPos + 1]

\* C11: negative delay rejected.  A call with delay < 0 fails with the
\* invalid-delay error and returns no scenario; no returned scenario holds an
\* inserted event whose trigger delay is negative.
C11_NegativeDelayRejected ==
    /\ (Terminated /\ delay < 0)
          => /\ raised # <<>>
             /\ raised[1].msg = "invalid delay"
             /\ returned = <<>>
    /\ Succeeded
          => \A g \in 1..Len(InsertedEvent.start_trigger[1].condition_groups) :
                \A c \in 1..Len(InsertedEvent.start_trigger[1].condition_groups[g]) :
                    InsertedEvent.start_trigger[1].condition_groups[g][c].delay >= 0

\* ------------------------------------------------------- sequences of calls

\* the number of calls a caller chains, each on the result of the one before
MaxCalls == 2

\* the longest timeline a chain of calls starts from
MaxSeqEvents == 2

\* the trigger description of the n-th call of a chain: the signal name tells
\* the inserted events apart
SeqTrigger(n) ==
    TriggerInfo(<<"FAULT_" \o NatStr(n)>>, <<IntVal(n)>>, <<"can_communication_error">>, <<>>)

\* the well-formed documents a chain starts from: one ego timeline with any
\* triggers, or an ego chain beside another actor's timeline
SeqScenarios ==
    {b \in EgoOnly({evs \in RefTimelines : Len(evs) <= MaxSeqEvents})
           \cup {Scenario("base", "normal", <<st>>) :
                    st \in {x \in [1..2 -> ActorStories] :
                               /\ DistinctActors(x)
                               /\ \A a \in 1..2 : Len(x[a].events) <= MaxSeqEvents}} :
        WellFormed(b) /\ TargetOf(b) # 0}

\* the first call of a chain
InitSeq ==
    /\ \E b \in SeqScenarios, a \in 0..(MaxSeqEvents + 1) :
          /\ heap = <<b>>
          /\ base0 = b
          /\ after_event_no = a
    /\ trigger_info = SeqTrigger(1)
    /\ delay = 3
    /\ base_scenario = 1
    /\ trigger0 = trigger_info
    /\ pc = "deepcopy"
    /\ new_scenario = 0
    /\ ego_story = 0
    /\ insert_index = 0
    /\ fault_event = <<>>
    /\ returned = <<>>
    /\ raised = <<>>
    /\ origin = base0
    /\ history = <<after_event_no>>
    /\ errors = <<>>
    /\ NoBatch
    /\ thread = 1
    /\ suspended = <<>>

\* the caller passes the scenario a call returned to the next call, with an
\* anchor that exists in it
CallAgain ==
    /\ pc = "done"
    /\ Len(history) < MaxCalls
    /\ \E a \in 1..Len(OutEvents) :
          /\ after_event_no' = a
          /\ history' = Append(history, a)
    /\ base_scenario' = returned[1]
    /\ base0' = heap[returned[1]]
    /\ trigger_info' = SeqTrigger(Len(history) + 1)
    /\ trigger0' = trigger_info'
    /\ pc' = "deepcopy"
    /\ new_scenario' = 0
    /\ ego_story' = 0
    /\ insert_index' = 0
    /\ fault_event' = <<>>
    /\ returned' = <<>>
    /\ UNCHANGED <<heap, delay, raised, origin, errors, thread, suspended, batch>>

NextSeq ==
    \/ Next
    \/ CallAgain

SpecSeq == InitSeq /\ [][NextSeq]_vars

\* the position in the returned ego timeline of the event the n-th call of
\* the chain inserted (0: none)
InsertedAt(n) ==
    LET hits == {k \in 1..Len(OutEvents) :
                    OutEvents[k].remarks = <<"fault trigger: FAULT_" \o NatStr(n)>>}
    IN  IF hits = {} THEN 0 ELSE CHOOSE k \in hits : TRUE

\* C12: the timeline invariant survives any sequence of insertions.  Starting
\* from a well-formed scenario, after n successful calls, each on the result
\* of the one before with an anchor valid at that moment, every timeline is
\* numbered 1..len in order, no reference dangles, the ego timeline has n
\* events more and every other timeline as many as at the start; after two
\* calls in a row with the same anchor A the event of the later call is
\* numbered A+1 and the event of the earlier call A+2.
C12_InvariantSurvivesSequences ==
    Succeeded =>
        /\ WellFormed(Out)
        /\ validate_scenario(Out) = <<>>
        /\ \A a \in 1..Len(StoryOf(Out)) :
              Len(StoryOf(Out)[a].events) =
                  Len(StoryOf(origin)[a].events)
                  + (IF a = TargetOf(origin) THEN Len(history) ELSE 0)
        /\ LET n == Len(history)
           IN  (n >= 2 /\ history[n] = history[n - 1]) =>
                  /\ InsertedAt(n) = history[n] + 1
                  /\ OutEvents[InsertedAt(n)].no = history[n] + 1
                  /\ InsertedAt(n - 1) = history[n] + 2
                  /\ OutEvents[InsertedAt(n - 1)].no = history[n] + 2

\* two calls in a row with the same anchor have returned, on a scenario of
\* two timelines whose ego timeline goes on after the anchor
C12_Witness ==
    /\ Succeeded
    /\ Len(history) = 2
    /\ history[2] = history[1]
    /\ Len(StoryOf(origin)) = 2
    /\ history[1] < Len(StoryOf(origin)[TargetOf(origin)].events)
    /\ InsertedAt(2) = history[2] + 1
    /\ InsertedAt(1) = history[2] + 2

\* --------------------------------------------------------- concurrent calls

\* the number of threads that call inject_fault_event on one base scenario
MaxThreads == 2

\* the base scenario the threads share: the test's ego timeline beside
\* another actor's
SharedScenario ==
    Scenario("base", "normal",
             << <<ActorStory("npc", StarTimeline("npc", 2, 1)),
                  ActorStory("ego", ChainTimeline(3))>> >>)

\* the anchors of the concurrent calls: the first thread has any of events 1
\* and 2 and a number the timeline does not have, the second event 2, the
\* others event 1
SharedAnchors(t) ==
    IF t = 1 THEN {1, 2, Len(ChainTimeline(3)) + 1} ELSE IF t = 2 THEN {2} ELSE {1}

\* the arguments and locals of a call that is about to start in thread t
NewCall(t, a) ==
    [thread |-> t, trigger_info |-> SeqTrigger(t), after_event_no |-> a, delay |-> 3,
     pc |-> "deepcopy", new_scenario |-> 0, ego_story |-> 0, insert_index |-> 0,
     fault_event |-> <<>>, returned |-> <<>>, raised |-> <<>>]

\* the arguments and locals of the running call
Running ==
    [thread |-> thread, trigger_info |-> trigger_info, after_event_no |-> after_event_no,
     delay |-> delay, pc |-> pc, new_scenario |-> new_scenario, ego_story |-> ego_story,
     insert_index |-> insert_index, fault_event |-> fault_event, returned |-> returned,
     raised |-> raised]

\* MaxThreads calls on one base scenario object; thread 1 is running
InitPar ==
    /\ heap = <<SharedScenario>>
    /\ base0 = SharedScenario
    /\ base_scenario = 1
    /\ \E as \in [1..MaxThreads -> 1..(Len(ChainTimeline(3)) + 1)] :
          /\ \A t \in 1..MaxThreads : as[t] \in SharedAnchors(t)
          /\ after_event_no = as[1]
          /\ suspended = [k \in 1..(MaxThreads - 1) |-> NewCall(k + 1, as[k + 1])]
    /\ thread = 1
    /\ trigger_info = SeqTrigger(1)
    /\ trigger0 = trigger_info
    /\ delay = 3
    /\ pc = "deepcopy"
    /\ new_scenario = 0
    /\ ego_story = 0
    /\ insert_index = 0
    /\ fault_event = <<>>
    /\ returned = <<>>
    /\ raised = <<>>
    /\ origin = base0
    /\ history = <<after_event_no>>
    /\ errors = <<>>
    /\ NoBatch

\* the scheduler suspends the running call between two of its lines and
\* resumes a call that has not ended
Switch ==
    /\ \E k \in 1..Len(suspended) :
          /\ suspended[k].pc \notin {"done", "raised"}
          /\ suspended' = [suspended EXCEPT ![k] = Running]
          /\ thread' = suspended[k].thread
          /\ trigger_info' = suspended[k].trigger_info
          /\ after_event_no' = suspended[k].after_event_no
          /\ delay' = suspended[k].delay
          /\ pc' = suspended[k].pc
          /\ new_scenario' = suspended[k].new_scenario
          /\ ego_story' = suspended[k].ego_story
          /\ insert_index' = suspended[k].insert_index
          /\ fault_event' = suspended[k].fault_event
          /\ returned' = suspended[k].returned
          /\ raised' = suspended[k].raised
    /\ trigger0' = trigger_info'
    /\ history' = <<after_event_no'>>
    /\ UNCHANGED <<heap, base_scenario, base0, origin, errors, batch>>

NextPar ==
    \/ Next
    \/ Switch

SpecPar == InitPar /\ [][NextPar]_vars

\* all calls, the running one and the suspended ones
AllCalls == {Running} \cup {suspended[k] : k \in 1..Len(suspended)}

\* what a call that has ended gave its caller
Outcome(c) ==
    [returned |-> IF c.returned = <<>> THEN <<>> ELSE <<heap[c.returned[1]]>>,
     raised |-> c.raised]

\* C13: concurrent calls sharing one base scenario are safe.  For every
\* interleaving of the lines of the calls, a call that has ended has returned
\* the scenario, or raised the error, of the same call run alone on the base
\* scenario, and keeps it while the other calls go on; the shared base
\* scenario object holds the document it held at the start.
C13_ConcurrentCallsSafe ==
    /\ heap[base_scenario] = base0
    /\ \A c \in AllCalls :
          c.pc \in {"done", "raised"} =>
              Outcome(c) = inject_fault_event(base0, c.trigger_info, c.after_event_no, c.delay)

\* two calls with different anchors have both returned; the thread that
\* started second took its copy first and returned last
C13_Witness ==
    /\ Succeeded
    /\ thread = 2
    /\ new_scenario = 2
    /\ \E c \in AllCalls :
          /\ c.thread = 1
          /\ c.pc = "done"
          /\ c.after_event_no # after_event_no
          /\ Outcome(c) # Outcome(Running)

\* ------------------------------------------------------ calls of the validator

\* timelines of at most two events of `actor` with any numbers, whose events
\* all wait for event r
JumbledTimelines(actor) ==
    {[k \in 1..Len(ns) |-> Event(ns[k], ActionName(actor, k), SingleRef(r), <<k>>)] :
        ns \in SeqsUpTo(1..MaxEvents, 2), r \in 0..MaxEvents}

\* the documents validate_scenario is called with: the base scenarios of the
\* insertion and documents of two timelines with any numbers and references
ValidatorScenarios ==
    BaseScenarios
    \cup {Scenario("base", "normal", << <<ActorStory("ego", e), ActorStory("npc", f)>> >>) :
             e \in JumbledTimelines("ego"), f \in JumbledTimelines("npc")}

\* a call of validate_scenario; the variables of inject_fault_event are idle
InitVal ==
    /\ \E s \in ValidatorScenarios :
          /\ heap = <<s>>
          /\ base0 = s
    /\ base_scenario = 1
    /\ trigger_info = TestTrigger
    /\ trigger0 = trigger_info
    /\ after_event_no = 0
    /\ delay = 0
    /\ pc = "validate"
    /\ new_scenario = 0
    /\ ego_story = 0
    /\ insert_index = 0
    /\ fault_event = <<>>
    /\ returned = <<>>
    /\ raised = <<>>
    /\ origin = base0
    /\ history = <<>>
    /\ errors = <<>>
    /\ NoBatch
    /\ thread = 1
    /\ suspended = <<>>

\* lines 276-311: the call reads the scenario and returns the list of messages
ValidateScenario ==
    /\ pc = "validate"
    /\ errors' = <<validate_scenario(heap[base_scenario])>>
    /\ pc' = "validated"
    /\ UNCHANGED <<args, heap, new_scenario, ego_story, insert_index, fault_event,
                   returned, raised, origin, history, thread, suspended, batch>>

NextVal == ValidateScenario

SpecVal == InitVal /\ [][NextVal]_vars

\* validate_scenario has returned
Validated == pc = "validated"

\* the messages it returned
Messages == errors[1]

\* the messages of one kind, by their place in the list
MessagesOf(kind) == {i \in 1..Len(Messages) : Messages[i].kind = kind}

\* the actor stories of the validated document (none without a story key)
Timelines == IF base0.story = <<>> THEN <<>> ELSE StoryOf(base0)

\* the places <<timeline, position>> of the validated document
Positions == UNION {{<<a, n>> : n \in 1..Len(Timelines[a].events)} : a \in 1..Len(Timelines)}

\* the event at a place
EventAt(p) == Timelines[p[1]].events[p[2]]

\* the places whose event is not numbered with its position
Mismatches == {p \in Positions : EventAt(p).no # p[2]}

\* the references <<timeline, position, slot>> of the validated document that
\* hold an integer other than 0 which no event of the same timeline carries
Danglings ==
    {d \in UNION {{<<p[1], p[2], sl>> : sl \in RefSlots(EventAt(p))} : p \in Positions} :
        LET v == SlotValue(EventAt(<<d[1], d[2]>>), d[3])
        IN  /\ IsInt(v)
            /\ v.i # 0
            /\ \A k \in 1..Len(Timelines[d[1]].events) : Timelines[d[1]].events[k].no # v.i}

\* the number a reference holds
TargetAt(d) == SlotValue(EventAt(<<d[1], d[2]>>), d[3]).i

\* C14: validator contiguity check.  validate_scenario reports exactly one
\* contiguity violation for each position n, of any timeline, whose event is
\* not numbered n, carrying the expected n and the actual number: as many
\* messages with a given expected and actual number as there are such
\* positions, all of them and not only the first, and none for a position
\* numbered n.
C14_ContiguityViolations ==
    Validated =>
        \A q \in {<<Messages[i].expected, Messages[i].actual>> : i \in MessagesOf("discontinuous")}
                 \cup {<<p[2], EventAt(p).no>> : p \in Mismatches} :
            Cardinality({i \in MessagesOf("discontinuous") :
                            <<Messages[i].expected, Messages[i].actual>> = q})
                = Cardinality({p \in Mismatches : <<p[2], EventAt(p).no>> = q})

\* a document of two timelines was validated: one has two misnumbered
\* positions, the other a well-numbered and a misnumbered one, and there are
\* three contiguity messages
C14_Witness ==
    /\ Validated
    /\ Len(Timelines) = 2
    /\ \E a, b \in 1..2 :
          /\ a # b
          /\ {<<a, 1>>, <<a, 2>>} \subseteq Mismatches
          /\ <<b, 1>> \notin Mismatches
          /\ <<b, 2>> \in Mismatches
    /\ Cardinality(MessagesOf("discontinuous")) = 3

\* C15: validator reference-existence check.  validate_scenario reports a
\* violation for the integer event_no of an event_state condition exactly
\* when it is not 0 and no event of the same timeline carries that number,
\* also when an event of another timeline carries it; the message names the
\* number of the referencing event and the dangling number: as many messages
\* with a given pair of numbers as there are such references.
C15_ReferenceViolations ==
    Validated =>
        \A q \in {<<Messages[i].event_no, Messages[i].ref_no>> : i \in MessagesOf("dangling")}
                 \cup {<<EventAt(<<d[1], d[2]>>).no, TargetAt(d)>> : d \in Danglings} :
            Cardinality({i \in MessagesOf("dangling") :
                            <<Messages[i].event_no, Messages[i].ref_no>> = q})
                = Cardinality({d \in Danglings : <<EventAt(<<d[1], d[2]>>).no, TargetAt(d)>> = q})

\* a document of two timelines was validated in which an event waits for a
\* number that only the other timeline has, and the reference was reported;
\* the other timeline's reference to the same number was not
C15_Witness ==
    /\ Validated
    /\ Len(Timelines) = 2
    /\ \E d \in Danglings :
          /\ \E p \in Positions : p[1] # d[1] /\ EventAt(p).no = TargetAt(d)
          /\ \E p \in Positions : \E sl \in RefSlots(EventAt(p)) :
                /\ p[1] # d[1]
                /\ SlotValue(EventAt(p), sl) = IntVal(TargetAt(d))
          /\ Cardinality(MessagesOf("dangling")) = Cardinality({e \in Danglings : e[1] = d[1]})

\* C16: validate_scenario has no side effects and finds nothing in a
\* well-formed scenario.  After the call the scenario object holds the
\* document it held before, and the list returned is empty when every
\* timeline is numbered 1..n in order and every event_state event_no is 0 or
\* a number of the same timeline.
C16_ValidatorPure ==
    Validated =>
        /\ heap[base_scenario] = base0
        /\ heap = <<base0>>
        /\ WellFormed(base0) => Messages = <<>>

\* a well-formed document of two timelines, with references to the sentinel
\* and to events, was validated
C16_Witness ==
    /\ Validated
    /\ WellFormed(base0)
    /\ Len(Timelines) = 2
    /\ \E p, q \in Positions :
          /\ \E sl \in RefSlots(EventAt(p)) : SlotValue(EventAt(p), sl) = IntVal(0)
          /\ \E sl \in RefSlots(EventAt(q)) : SlotValue(EventAt(q), sl).i > 0
    /\ Messages = <<>>

\* ------------------------------------------------------ the inserted event

\* the remark _create_fault_event gives the event of this call
FaultRemark == <<"fault trigger: " \o Get(trigger_info.signal_name, "UNKNOWN")>>

\* C17: placement of the new event.  After a successful insertion at anchor A
\* the anchor event is where it was and the event at the position right
\* after it is the inserted one; that event is numbered A+1 and its action
\* type is the action type of the trigger description.
C17_Placement ==
    Succeeded =>
        /\ OutEvents[AnchorPos].action = InEvents[AnchorPos].action
        /\ OutEvents[AnchorPos].no = after_event_no
        /\ InsertedEvent.remarks = FaultRemark
        /\ InsertedEvent.no = after_event_no + 1
        /\ trigger_info.action_type # <<>>
              => InsertedEvent.action.type = trigger_info.action_type[1]

\* an event of action type "brake" was inserted after the second event of
\* three
C17_Witness ==
    /\ Succeeded
    /\ AnchorPos = 2
    /\ Len(InEvents) = 3
    /\ trigger_info.action_type = <<"brake">>
    /\ InsertedEvent.action.type = "brake"
    /\ InsertedEvent.no = 3
    /\ OutEvents[4].action = InEvents[3].action

\* the parameters named event_no of a condition, by their place
EventNoParams(condition) ==
    {k \in 1..Len(condition.params) : condition.params[k].name = "event_no"}

\* C18: trigger of the new event.  In the returned scenario the inserted
\* event's start trigger has exactly one condition group with exactly one
\* condition; the condition is of kind event_state, its event_no is the
\* anchor number A, not A+1, and its delay is the delay of the call.
C18_InsertedTrigger ==
    Succeeded =>
        /\ InsertedEvent.start_trigger # <<>>
        /\ LET groups == InsertedEvent.start_trigger[1].condition_groups
           IN  /\ Len(groups) = 1
               /\ Len(groups[1]) = 1
               /\ groups[1][1].type = "event_state"
               /\ Cardinality(EventNoParams(groups[1][1])) = 1
               /\ \A k \in EventNoParams(groups[1][1]) :
                     groups[1][1].params[k].value = IntVal(after_event_no)
               /\ groups[1][1].delay = delay

\* an insertion with delay 3 after event 1 of the test scenario: the
\* reference of the old event 3 to event 2 was rewritten to 3 and the
\* inserted event's reference to the anchor was not
C18_Witness ==
    /\ Succeeded
    /\ base0 = TestScenario
    /\ after_event_no = 1
    /\ delay = 3
    /\ OutEvents[4].start_trigger = SingleRef(3)
    /\ InsertedEvent.start_trigger[1].condition_groups[1][1].params[1].value = IntVal(1)
    /\ InsertedEvent.start_trigger[1].condition_groups[1][1].delay = 3

\* C19: shaping, communication-error row.  Whenever the action type of the
\* inserted event contains "communication_error", its params are a "value"
\* parameter (the string of the trigger's value, "1" when it has none, unit
\* "") followed by a "target" parameter if and only if the trigger
\* description has a target.
C19_CommunicationErrorParams ==
    (Succeeded /\ StrContains(InsertedEvent.action.type, "communication_error")) =>
        InsertedEvent.action.params =
            <<ActionParam("value",
                          StrVal(IF trigger_info.value = <<>> THEN "1"
                                 ELSE PyStr(trigger_info.value[1])),
                          "")>>
            \o (IF trigger_info.target = <<>> THEN <<>>
                ELSE <<ActionParam("target", trigger_info.target[1], "")>>)

\* C20: shaping, steering row.  When the trigger's action type is "steering"
\* the inserted event has exactly two params, in this order:
\* target_rudder_angle with the trigger's value, 45 when it has none, and unit
\* "deg", then steering_time with value 1 and unit "s"; there is no "value"
\* and no "target" parameter.
C20_SteeringParams ==
    (Succeeded /\ trigger_info.action_type = <<"steering">>) =>
        LET params == InsertedEvent.action.params
        IN  /\ Len(params) = 2
            /\ params[1] = ActionParam("target_rudder_angle",
                                       IF trigger_info.value = <<>> THEN IntVal(45)
                                       ELSE trigger_info.value[1],
                                       "deg")
            /\ params[2] = ActionParam("steering_time", IntVal(1), "s")
            /\ \A k \in 1..Len(params) : params[k].name \notin {"value", "target"}

\* a steering event was inserted for a trigger that has a target and no value
C20_Witness ==
    /\ Succeeded
    /\ trigger_info.action_type = <<"steering">>
    /\ trigger_info.value = <<>>
    /\ trigger_info.target # <<>>
    /\ InsertedEvent.action.type = "steering"
    /\ InsertedEvent.action.params[1].value = IntVal(45)
    /\ Len(InsertedEvent.action.params) = 2

\* the "value" parameter the shaping rows speak of: the string of the
\* trigger's value, "1" when it has none, with the given unit
ValueParamOf(unit) ==
    ActionParam("value",
                StrVal(IF trigger_info.value = <<>> THEN "1" ELSE PyStr(trigger_info.value[1])),
                unit)

\* C21: shaping, brake and default rows.  When the action type of the
\* inserted event is "brake" its params are exactly one "value" parameter
\* with unit "%"; when it is neither "brake" nor "steering" nor contains
\* "communication_error", exactly one "value" parameter with unit ""; the
\* value is the string of the trigger's value, "1" when it has none, and a
\* target the trigger supplies is not added.
C21_BrakeAndDefaultParams ==
    Succeeded =>
        /\ InsertedEvent.action.type = "brake"
              => InsertedEvent.action.params = <<ValueParamOf("%")>>
        /\ (/\ InsertedEvent.action.type \notin {"brake", "steering"}
            /\ ~StrContains(InsertedEvent.action.type, "communication_error"))
              => InsertedEvent.action.params = <<ValueParamOf("")>>

\* a brake event was inserted for a trigger with the integer value 1 and a
\* target: one parameter, the string "1" with unit "%"
C21_Witness ==
    /\ Succeeded
    /\ trigger_info.action_type = <<"brake">>
    /\ trigger_info.value = <<IntVal(1)>>
    /\ trigger_info.target # <<>>
    /\ InsertedEvent.action.params = <<ActionParam("value", StrVal("1"), "%")>>

\* an event of an action type the shaping does not know was inserted for a
\* trigger with a target and no value: one parameter, "1" with unit ""
C21_WitnessDefault ==
    /\ Succeeded
    /\ trigger_info.action_type = <<"accel">>
    /\ trigger_info.value = <<>>
    /\ trigger_info.target # <<>>
    /\ InsertedEvent.action.params = <<ActionParam("value", StrVal("1"), "")>>

\* ------------------------------------------------------- generate_scenarios

\* the longest list of trigger descriptions and the most injection points of
\* a batch
MaxTriggers == 2

MaxPoints == 2

\* an entry of common_settings["injection_points"]: the name of the point
\* and its optional default_delay (the description of an entry is not read)
PointSetting(name, dd) == [name |-> name, default_delay |-> dd]

\* common_settings of the mappings (line 123): its optional key
\* "injection_points", a dict from point names to entries, in dict order
CommonSettings(points) == [injection_points |-> points]

\* dict.get(key, {}) on such a dict: the entry of the name, or an entry
\* without a default_delay
PointSettingOf(points, name) ==
    IF \E k \in 1..Len(points) : points[k].name = name
    THEN points[CHOOSE k \in 1..Len(points) : points[k].name = name]
    ELSE PointSetting(name, <<>>)

\* generator.py line 235: the default delay of an injection point is the
\* default_delay common_settings has for it, and 3.0 when common_settings has
\* no "injection_points", no entry of the point or no default_delay in it
default_delay(settings, injection_point) ==
    Get(PointSettingOf(Get(settings.injection_points, <<>>), injection_point).default_delay, 3)

\* line 236: the delay of the point's own configuration, or the default
point_delay(settings, point) ==
    Get(point.delay, default_delay(settings, point.name))

\* an entry of the injection_points dict: its key, after_event and the
\* optional delay
InjectionPoint(name, after_event, dly) ==
    [name |-> name, after_event |-> after_event, delay |-> dly]

\* the key of the k-th injection point: the keys of a dict are distinct
PointName(k) == "point_" \o NatStr(k)

\* the trigger descriptions the i-th place of the list is drawn from: the
\* test's everywhere (so that a list can name a signal twice), one of another
\* action type without a signal name, one whose signal name has a "/", one
\* with another signal name
BatchTriggers(i) ==
    {TestTrigger}
    \cup (IF i = 1 THEN {TriggerInfo(<<>>, <<>>, <<"steering">>, <<>>),
                          TriggerInfo(<<"A/B">>, <<IntVal(1)>>,
                                      <<"can_communication_error">>, <<>>)}
          ELSE {})
    \cup (IF i = 2 THEN {TriggerInfo(<<"LIN_ERROR">>, <<StrVal("0x10")>>,
                                     <<"lin_communication_error">>, <<StrVal("BRAKE_ECU")>>)}
          ELSE {})

\* the configurations the k-th injection point is drawn from: after an event
\* of the test's timeline with the default delay, after a number the
\* timeline does not have, and for the first point after event 1 with delay 0
PointConfigs(k) ==
    {InjectionPoint(PointName(k), IF k > Len(ChainTimeline(3)) THEN 1 ELSE k, <<>>),
     InjectionPoint(PointName(k), Len(ChainTimeline(3)) + 1, <<>>)}
    \cup (IF k = 1 THEN {InjectionPoint(PointName(k), 1, <<0>>)} ELSE {})

\* the common settings of a batch: none for any injection point, and a
\* default_delay of one second for the first point beside an entry without a
\* default_delay for the second
BatchSettings ==
    {CommonSettings(<<>>),
     CommonSettings(<< <<PointSetting(PointName(1), <<1>>), PointSetting(PointName(2), <<>>)>> >>)}

\* the base scenarios of a batch: the test's, the same beside another
\* actor's timeline, and one without an ego timeline
BatchScenarios ==
    {TestScenario, SharedScenario,
     Scenario("base", "normal", << <<ActorStory("npc", StarTimeline("npc", 2, 1))>> >>)}

\* mutant of update_metadata: the metadata is written to the base scenario
update_metadata_on_base(h, new, base, trigger, point) ==
    [h EXCEPT ![base].scenario_summary =
                   h[base].scenario_summary \o "_" \o Get(trigger.signal_name, "") \o "_" \o point,
              ![base].variation = "fault_" \o point]

\* lines 247-248: the metadata of the new scenario.  The variation is the
\* f-string "異常系_{injection_point}", written here with an ASCII prefix.
update_metadata(h, new, base, trigger, point) ==
    [h EXCEPT ![new].scenario_summary =
                   h[base].scenario_summary \o "_" \o Get(trigger.signal_name, "") \o "_" \o point,
              ![new].variation = "fault_" \o point]

\* line 164: the file name of a combination; the date and the scenario name
\* in front of it are the same for every file of a batch
output_filename(trigger, point) ==
    Get(trigger.signal_name, "UNKNOWN") \o "_" \o point \o ".json"

\* line 260, open(output_path, 'w') in the output directory made at line
\* 131: a file name with a "/" names a directory that does not exist, and
\* the open fails with FileNotFoundError
open_succeeds(filename) == ~StrContains(filename, "/")

\* the exception of a failed open
FileNotFoundError(filename) ==
    [type |-> "FileNotFoundError", msg |-> "No such file or directory: " \o filename, no |-> 0]

\* mutant of handle_exception: the exception leaves generate_scenarios
handle_exception_stop == "batch_raised"

\* where control goes after the except clause of lines 173-175: on to the
\* next round of the loop
handle_exception == "loop"

\* len(trigger_requirements) * len(injection_points), line 135
total_count == Len(trigger_requirements) * Len(injection_points)

\* the n-th combination of the nested loops of lines 144-147, as
\* <<index of the trigger, index of the injection point>>
Combination(n) ==
    <<((n - 1) \div Len(injection_points)) + 1, ((n - 1) % Len(injection_points)) + 1>>

\* generate_scenarios has loaded the base scenario (line 120) and is about
\* to enter the loop
InitBatch ==
    /\ \E b \in BatchScenarios :
          /\ heap = <<b>>
          /\ base0 = b
    /\ common_settings \in BatchSettings
    /\ \E n \in 0..MaxTriggers :
          \E ts \in [1..n -> UNION {BatchTriggers(i) : i \in 1..MaxTriggers}] :
              /\ \A i \in 1..n : ts[i] \in BatchTriggers(i)
              /\ trigger_requirements = ts
    /\ \E n \in 0..MaxPoints :
          \E ps \in [1..n -> UNION {PointConfigs(k) : k \in 1..MaxPoints}] :
              /\ \A k \in 1..n : ps[k] \in PointConfigs(k)
              /\ injection_points = ps
    /\ attempts = <<>>
    /\ generated_files = <<>>
    /\ saved = <<>>
    /\ base_scenario = 1
    /\ trigger_info = TestTrigger
    /\ trigger0 = trigger_info
    /\ after_event_no = 0
    /\ delay = 0
    /\ pc = "loop"
    /\ new_scenario = 0
    /\ ego_story = 0
    /\ insert_index = 0
    /\ fault_event = <<>>
    /\ returned = <<>>
    /\ raised = <<>>
    /\ origin = base0
    /\ history = <<>>
    /\ errors = <<>>
    /\ thread = 1
    /\ suspended = <<>>

\* lines 144-161 and 234-244: the next combination; _generate_single_scenario
\* calls inject_fault_event with the base scenario, the trigger, the point's
\* after_event and its delay
BeginCombination ==
    /\ pc = "loop"
    /\ Len(attempts) < total_count
    /\ LET c == Combination(Len(attempts) + 1)
       IN  /\ attempts' = Append(attempts, c)
           /\ trigger_info' = trigger_requirements[c[1]]
           /\ after_event_no' = injection_points[c[2]].after_event
           /\ delay' = point_delay(common_settings, injection_points[c[2]])
    /\ trigger0' = trigger_info'
    /\ pc' = "deepcopy"
    /\ new_scenario' = 0
    /\ ego_story' = 0
    /\ insert_index' = 0
    /\ fault_event' = <<>>
    /\ returned' = <<>>
    /\ raised' = <<>>
    /\ UNCHANGED <<heap, base_scenario, base0, origin, history, errors, thread, suspended,
                   common_settings, trigger_requirements, injection_points, generated_files,
                   saved>>

\* lines 247-250
UpdateMetadata ==
    /\ pc = "done"
    /\ heap' = update_metadata(heap, returned[1], base_scenario, trigger_info,
                               injection_points[attempts[Len(attempts)][2]].name)
    /\ pc' = "save"
    /\ UNCHANGED <<args, caller, new_scenario, ego_story, insert_index, fault_event,
                   returned, raised>>

\* lines 163-171 and 258-266: _save_scenario writes the document and its
\* path is appended to generated_files; when the open of line 260 fails,
\* _save_scenario logs and re-raises (lines 264-266) and line 169 is not
\* reached
SaveScenario ==
    /\ pc = "save"
    /\ LET name == output_filename(trigger_info,
                                   injection_points[attempts[Len(attempts)][2]].name)
       IN  IF open_succeeds(name)
           THEN /\ saved' = Append(saved, heap[returned[1]])
                /\ generated_files' = Append(generated_files, name)
                /\ pc' = "loop"
                /\ UNCHANGED raised
           ELSE /\ Raise(FileNotFoundError(name))
                /\ UNCHANGED <<saved, generated_files>>
    /\ UNCHANGED <<args, heap, new_scenario, ego_story, insert_index, fault_event, returned,
                   origin, history, errors, thread, suspended,
                   common_settings, trigger_requirements, injection_points, attempts>>

\* lines 173-175: the exception of the combination, raised by
\* inject_fault_event or by _save_scenario, is logged
CatchError ==
    /\ pc = "raised"
    /\ pc' = handle_exception
    /\ UNCHANGED <<args, caller, heap, new_scenario, ego_story, insert_index, fault_event,
                   returned, raised>>

\* lines 177-185
ReturnFiles ==
    /\ pc = "loop"
    /\ Len(attempts) = total_count
    /\ pc' = "batch_done"
    /\ UNCHANGED <<args, caller, heap, new_scenario, ego_story, insert_index, fault_event,
                   returned, raised>>

NextBatch ==
    \/ Next
    \/ BeginCombination
    \/ UpdateMetadata
    \/ SaveScenario
    \/ CatchError
    \/ ReturnFiles

SpecBatch == InitBatch /\ [][NextBatch]_vars

\* the call of generate_scenarios has ended
BatchEnded == pc \in {"batch_done", "batch_raised"}

\* what inject_fault_event gives for the n-th combination on the document
\* that was loaded before the loop
AloneOutcome(n) ==
    inject_fault_event(base0,
                       trigger_requirements[Combination(n)[1]],
                       injection_points[Combination(n)[2]].after_event,
                       point_delay(common_settings, injection_points[Combination(n)[2]]))

\* the file name of the n-th combination
FilenameOf(n) ==
    output_filename(trigger_requirements[Combination(n)[1]],
                    injection_points[Combination(n)[2]].name)

\* the combinations that succeed, in iteration order: inject_fault_event
\* returns a scenario and the scenario is written
Successes ==
    LET ok(n) == AloneOutcome(n).raised = <<>> /\ open_succeeds(FilenameOf(n))
    IN  SelectSeq([n \in 1..total_count |-> n], ok)

\* C22: per-combination error isolation in the batch.  The combinations are
\* begun in iteration order, each once; when generate_scenarios ends it has
\* returned normally, all len(trigger_requirements) * len(injection_points)
\* combinations were attempted exactly once, also those behind a failed one,
\* and the returned list holds the file names of exactly the combinations
\* that succeeded, in iteration order.
C22_ErrorIsolation ==
    /\ Len(attempts) <= total_count
    /\ \A n \in 1..Len(attempts) : attempts[n] = Combination(n)
    /\ BatchEnded =>
          /\ pc = "batch_done"
          /\ Len(attempts) = total_count
          /\ generated_files = [k \in 1..Len(Successes) |-> FilenameOf(Successes[k])]

\* a batch of two triggers and two injection points has ended: the first and
\* the third combination failed in inject_fault_event, the second returned a
\* scenario that could not be written, and the fourth is the one file listed
C22_Witness ==
    /\ pc = "batch_done"
    /\ total_count = 4
    /\ Len(attempts) = 4
    /\ AloneOutcome(1).raised # <<>>
    /\ AloneOutcome(2).raised = <<>>
    /\ ~open_succeeds(FilenameOf(2))
    /\ AloneOutcome(3).raised # <<>>
    /\ Successes = <<4>>
    /\ generated_files = <<"LIN_ERROR_point_2.json">>

\* the events of a document's ego timeline that carry a fault remark
FaultEvents(s) ==
    LET evs == StoryOf(s)[TargetOf(s)].events
    IN  {k \in 1..Len(evs) : evs[k].remarks # <<>>}

\* the document the n-th combination gives when it is the only one: the
\* scenario inject_fault_event returns with the metadata of lines 247-248
AloneDocument(n) ==
    [AloneOutcome(n).returned[1] EXCEPT
        !.scenario_summary =
            base0.scenario_summary \o "_"
            \o Get(trigger_requirements[Combination(n)[1]].signal_name, "") \o "_"
            \o injection_points[Combination(n)[2]].name,
        !.variation = "fault_" \o injection_points[Combination(n)[2]].name]

\* C27: every combination of a batch starts from the same base.  Throughout
\* generate_scenarios the base scenario object holds the document loaded
\* before the loop, events, scenario_summary and variation; every document
\* written has exactly one inserted fault event and is the document its
\* combination gives when it is processed alone.
C27_SameBase ==
    /\ heap[base_scenario] = base0
    /\ Len(saved) <= Len(Successes)
    /\ \A k \in 1..Len(saved) :
          /\ Cardinality(FaultEvents(saved[k])) = 1
          /\ saved[k] = AloneDocument(Successes[k])

\* a batch has written four documents with summaries and variations of their
\* own, and the base still has the ones it was loaded with
C27_Witness ==
    /\ pc = "batch_done"
    /\ Len(saved) = 4
    /\ \A k \in 1..4 : saved[k].scenario_summary # base0.scenario_summary
    /\ \A k \in 1..4 : saved[k].variation # base0.variation
    /\ saved[1] # saved[2]
    /\ saved[1] # saved[3]
    /\ heap[base_scenario] = base0

\* ------------------------------------------------ the events that were there

\* C23 as stated: in every timeline that has the anchor, also one numbered
\* with gaps or duplicates after it, every event behind the inserted one has
\* its input number plus 1 and every event up to the anchor its input number.
C23_TailOldPlusOne ==
    Succeeded =>
        \A i \in 1..Len(InEvents) :
            OutEvents[NewPos(i)].no = InEvents[i].no + (IF i > AnchorPos THEN 1 ELSE 0)

\* the input events behind the anchor are numbered A+1, A+2, ... in order
ContiguousTail ==
    \A i \in (AnchorPos + 1)..Len(InEvents) : InEvents[i].no = after_event_no + (i - AnchorPos)

\* C23 as amended: every event up to the anchor keeps its input number and
\* the k-th event behind the inserted one is numbered A+1+k, whatever its
\* input number; that is its input number plus 1 when the input events
\* behind the anchor are numbered A+1, A+2, ... in order.
C23_TailRenumbered ==
    Succeeded =>
        /\ \A i \in 1..AnchorPos : OutEvents[i].no = InEvents[i].no
        /\ \A i \in (AnchorPos + 1)..Len(InEvents) :
              OutEvents[i + 1].no = after_event_no + 1 + (i - AnchorPos)
        /\ ContiguousTail
              => \A i \in (AnchorPos + 1)..Len(InEvents) :
                    OutEvents[i + 1].no = InEvents[i].no + 1

\* an insertion into a timeline with a gap behind the anchor: the event
\* behind the inserted one is numbered A+2, not its input number plus 1
C23_Witness ==
    /\ Succeeded
    /\ AnchorPos < Len(InEvents)
    /\ InEvents[AnchorPos + 1].no > after_event_no + 1
    /\ OutEvents[AnchorPos + 2].no = after_event_no + 2
    /\ OutEvents[AnchorPos + 2].no # InEvents[AnchorPos + 1].no + 1

\* an insertion into a timeline numbered 1..3 before its second event: the
\* two events behind the inserted one have their input number plus 1
C23_WitnessContiguous ==
    /\ Succeeded
    /\ Numbered(InEvents)
    /\ Len(InEvents) = 3
    /\ after_event_no = 1
    /\ OutEvents[3].no = InEvents[2].no + 1
    /\ OutEvents[4].no = InEvents[3].no + 1

\* ------------------------------------------------------- the order of steps

\* the lines of inject_fault_event in the order of its statements: the
\* references are rewritten (line 73) before the procedural order is
\* recomputed (line 76)
RewriteFirstOrder ==
    <<"deepcopy", "check_story", "find_ego", "get_events", "find_position", "create",
      "insert", "renumber", "update_references", "update_order", "return", "done">>

\* the place of a line in an order (0: not in it)
PlaceIn(order, line) ==
    IF \E n \in 1..Len(order) : order[n] = line
    THEN CHOOSE n \in 1..Len(order) : order[n] = line
    ELSE 0

\* a step of the call that does not raise goes from a line of the order to
\* the next line of the order
StepsFollow(order) ==
    (pc' # pc /\ pc' # "raised") =>
        /\ PlaceIn(order, pc) > 0
        /\ PlaceIn(order, pc') = PlaceIn(order, pc) + 1

\* the reference rewrite finds the tail already renumbered and leaves the
\* numbers alone, and it adds 1 to exactly the integer event_no values that
\* are at least anchor+1
RewriteAfterRenumbering ==
    pc = "update_references" =>
        LET before == EventsOf(heap, new_scenario, ego_story)
            after  == EventsOf(heap', new_scenario', ego_story')
        IN  /\ Len(after) = Len(before)
            /\ \A k \in 1..Len(before) :
                  /\ k > insert_index => before[k].no = after_event_no + (k - insert_index)
                  /\ after[k].no = before[k].no
                  /\ RefSlots(after[k]) = RefSlots(before[k])
                  /\ \A sl \in RefSlots(before[k]) :
                        LET v == SlotValue(before[k], sl)
                        IN  SlotValue(after[k], sl) =
                               IF IsInt(v) /\ v.i >= after_event_no + 1
                               THEN IntVal(v.i + 1) ELSE v

\* C24 as stated: the steps of a call run in the order deep copy, locate
\* anchor, build event, insert, renumber tail, recompute procedural order,
\* rewrite references, return: the recomputation of the procedural order
\* comes before the reference rewrite.
C24_StepOrderAsStated ==
    [][StepsFollow(<<"deepcopy", "check_story", "find_ego", "get_events", "find_position",
                     "create", "insert", "renumber", "update_order", "update_references",
                     "return", "done">>)]_vars

\* C24 as amended: the steps of a call run in the order deep copy, locate
\* anchor, build event, insert, renumber tail, rewrite references, recompute
\* procedural order, return; the reference rewrite runs after the tail
\* renumbering and tests the references against the threshold anchor+1.
C24_StepOrder == [][StepsFollow(RewriteFirstOrder) /\ RewriteAfterRenumbering]_vars

\* the call is about to recompute the procedural order: the tail is
\* renumbered, a reference to a shifted event is already rewritten, and the
\* procedural order of the tail is still the old one
C24_Witness ==
    /\ pc = "update_order"
    /\ base0 = TestScenario
    /\ after_event_no = 1
    /\ LET events == EventsOf(heap, new_scenario, ego_story)
       IN  /\ events[4].no = 4
           /\ events[4].start_trigger = SingleRef(3)
           /\ events[4].test_procedure_order = <<3>>

\* ---------------------------------------------------- precondition failures

\* the four errors of the precondition checks, in the order of the checks
MissingStory == ValueError("no story section", 0)

ActorNotFound == ValueError("ego story not found", 0)

EmptyTimeline == ValueError("event list is empty", 0)

AnchorMissing == ValueError("event number not found", after_event_no)

\* C25: precondition failures are distinct and ordered.  A call on a scenario
\* without a story key or with an empty story ends with the missing-story
\* error; otherwise without an ego timeline with actor-not-found; otherwise
\* with an ego timeline without events with empty-timeline; otherwise
\* without an event numbered as the anchor with anchor-not-found; otherwise
\* it returns.  The four errors differ from one another.
C25_PreconditionOrder ==
    /\ Cardinality({MissingStory.msg, ActorNotFound.msg, EmptyTimeline.msg, AnchorMissing.msg}) = 4
    /\ Terminated =>
          IF base0.story = <<>> \/ StoryOf(base0) = <<>>
          THEN raised = <<MissingStory>> /\ returned = <<>>
          ELSE IF TargetOf(base0) = 0
          THEN raised = <<ActorNotFound>> /\ returned = <<>>
          ELSE IF InEvents = <<>>
          THEN raised = <<EmptyTimeline>> /\ returned = <<>>
          ELSE IF \A i \in 1..Len(InEvents) : InEvents[i].no # after_event_no
          THEN raised = <<AnchorMissing>> /\ returned = <<>>
          ELSE raised = <<>> /\ returned # <<>>

\* a call on a scenario whose ego timeline has no events, so that the anchor
\* is missing too, has ended with the empty-timeline error
C25_Witness ==
    /\ pc = "raised"
    /\ TargetOf(base0) # 0
    /\ InEvents = <<>>
    /\ after_event_no >= 1
    /\ Len(StoryOf(base0)) = 2
    /\ raised = <<EmptyTimeline>>

\* C26 as stated: the state parameter of the inserted event's trigger
\* condition is "completed".  The one event_state condition of the inserted
\* event has a parameter named state whose value is the string "completed".
C26_StateCompleted ==
    Succeeded =>
        \E k \in 1..Len(InsertedEvent.start_trigger[1].condition_groups[1][1].params) :
            LET param == InsertedEvent.start_trigger[1].condition_groups[1][1].params[k]
            IN  param.name = "state" /\ param.value = StrVal("completed")

\* the parameters named state of the inserted event's condition, by place
StateParams ==
    {k \in 1..Len(InsertedEvent.start_trigger[1].condition_groups[1][1].params) :
        InsertedEvent.start_trigger[1].condition_groups[1][1].params[k].name = "state"}

\* C26 as amended: the one event_state condition of the inserted event has
\* exactly one parameter named state, and its value is the string
\* "completeState", the value the repository's scenarios use for a completed
\* event.
C26_StateCompleteState ==
    Succeeded =>
        /\ Cardinality(StateParams) = 1
        /\ \A k \in StateParams :
              InsertedEvent.start_trigger[1].condition_groups[1][1].params[k]
                  = CondParam("state", StrVal("completeState"))

\* an event was inserted into the test scenario; it waits for the state
\* "completeState" of its anchor, as the old events do for their predecessors
C26_Witness ==
    /\ Succeeded
    /\ base0 = TestScenario
    /\ after_event_no = 2
    /\ InsertedEvent.start_trigger[1].condition_groups[1][1].params[2].value
          = StrVal("completeState")
    /\ OutEvents[4].start_trigger[1].condition_groups[1][1].params[2].value
          = StrVal("completeState")

\* ------------------------------------------------------------- what is kept

\* C28: timelines other than the mutated one are returned unchanged.  After
\* a successful call the returned scenario has the actor stories of the
\* input, and each of them except the ego's equals its input counterpart in
\* every field: event numbers, procedural order and every event_no, also
\* one that is at least anchor+1.
C28_OtherTimelinesUnchanged ==
    Succeeded =>
        /\ Len(StoryOf(Out)) = Len(StoryOf(base0))
        /\ \A a \in 1..Len(StoryOf(base0)) :
              a # TargetOf(base0) => StoryOf(Out)[a] = StoryOf(base0)[a]

\* an insertion into the ego timeline of a scenario whose other timeline
\* holds references to a number of at least anchor+1
C28_Witness ==
    /\ Succeeded
    /\ Len(StoryOf(base0)) = 2
    /\ AnchorPos < Len(InEvents)
    /\ \E a \in 1..2 :
          /\ a # TargetOf(base0)
          /\ \E k \in 1..Len(StoryOf(base0)[a].events) :
                \E sl \in RefSlots(StoryOf(base0)[a].events[k]) :
                    SlotValue(StoryOf(base0)[a].events[k], sl).i >= after_event_no + 1
          /\ StoryOf(Out)[a] = StoryOf(base0)[a]

\* a parameter without what a call may change: the integer value of an
\* event_no parameter of an event_state condition
ParamKept(kind, param) ==
    IF kind = "event_state" /\ param.name = "event_no" /\ IsInt(param.value)
    THEN [param EXCEPT !.value = IntVal(0)]
    ELSE param

\* an event without what a call may change: no, test_procedure_order and the
\* integer event_no values of its event_state conditions
EventKept(ev) ==
    [ev EXCEPT
        !.no = 0,
        !.test_procedure_order = <<>>,
        !.start_trigger =
            IF ev.start_trigger = <<>> THEN <<>>
            ELSE <<[condition_groups |->
                      [g \in 1..Len(ev.start_trigger[1].condition_groups) |->
                          [c \in 1..Len(ev.start_trigger[1].condition_groups[g]) |->
                              LET cond == ev.start_trigger[1].condition_groups[g][c]
                              IN  [cond EXCEPT !.params =
                                      [k \in 1..Len(cond.params) |->
                                          ParamKept(cond.type, cond.params[k])]]]]]>>]

\* C29: pre-existing events are preserved.  After a successful insertion the
\* mutated timeline without the inserted event has the input events in their
\* order, each with its action, remarks, conditions (kinds, state
\* parameters, delays) and every other field as in the input; only no,
\* test_procedure_order and the integer event_no values of event_state
\* conditions may differ.
C29_EventsPreserved ==
    Succeeded =>
        /\ Len(OutEvents) = Len(InEvents) + 1
        /\ \A i \in 1..Len(InEvents) : EventKept(OutEvents[NewPos(i)]) = EventKept(InEvents[i])

\* an insertion before an event with conditions of two kinds and delays
\* other than 0, one of whose references was shifted
C29_Witness ==
    /\ Succeeded
    /\ AnchorPos = 1
    /\ Len(InEvents) = 3
    /\ InEvents[3].start_trigger = MixedTrigger
    /\ OutEvents[4].start_trigger # InEvents[3].start_trigger
    /\ OutEvents[4].start_trigger[1].condition_groups[1][1].delay = 5
    /\ OutEvents[4].start_trigger[1].condition_groups[2][2].delay = 1
    /\ OutEvents[4].action = InEvents[3].action

\* C30: the time-based sentinel is never rewritten.  For a successful
\* insertion with an anchor of at least 1, every event_state event_no that is
\* 0 in the input, in any timeline, is 0 in the output.
C30_SentinelKept ==
    (Succeeded /\ after_event_no >= 1) =>
        \A a \in 1..Len(StoryOf(base0)) :
            \A i \in 1..Len(StoryOf(base0)[a].events) :
                \A sl \in RefSlots(StoryOf(base0)[a].events[i]) :
                    SlotValue(StoryOf(base0)[a].events[i], sl) = IntVal(0)
                        => SlotValue(StoryOf(Out)[a].events[IF a = TargetOf(base0)
                                                            THEN NewPos(i) ELSE i], sl)
                              = IntVal(0)

\* an insertion before an event that waits for the sentinel 0 and an event
\* whose reference was shifted
C30_Witness ==
    /\ Succeeded
    /\ after_event_no = 1
    /\ Len(InEvents) = 3
    /\ InEvents[2].start_trigger = SingleRef(0)
    /\ InEvents[3].start_trigger = SingleRef(2)
    /\ OutEvents[3].start_trigger = SingleRef(0)
    /\ OutEvents[4].start_trigger = SingleRef(3)

====
